---- MODULE Spec2Model ----
(***************************************************************************)
(* FillGlobalStorageJob of the partition module: the job that records the  *)
(* partition layout and the boot loader target in the global storage.      *)
(*                                                                         *)
(* A QString is a sequence of tokens (short pieces of text), so that       *)
(* startsWith, split, trimmed, arg and join are computed and not assumed.  *)
(* A QVariant is a record with a "type" field; a QVariantMap and the       *)
(* GlobalStorage are functions from key strings to values.                 *)
(***************************************************************************)
EXTENDS Integers, Sequences, FiniteSets, TLC

\* Bounds of the model.
MaxDevices == 2
MaxPartitions == 2

(***************************************************************************)
(* QString operations                                                      *)
(***************************************************************************)
isEmpty(s) == Len(s) = 0

startsWith(s, prefix) ==
    /\ Len(s) >= Len(prefix)
    /\ SubSeq(s, 1, Len(prefix)) = prefix

\* QString::split( "/" ).last(): the text after the last "/" (the whole
\* string when it holds no "/", the empty string when it ends in "/").
RECURSIVE splitLast(_)
splitLast(s) ==
    IF isEmpty(s) THEN << >>
    ELSE IF s[Len(s)] = "/" THEN << >>
    ELSE Append(splitLast(SubSeq(s, 1, Len(s) - 1)), s[Len(s)])

Whitespace == {" ", "\n"}

\* QString::trimmed(): leading and trailing whitespace removed.
RECURSIVE trimmed(_)
trimmed(s) ==
    IF isEmpty(s) THEN s
    ELSE IF s[1] \in Whitespace THEN trimmed(Tail(s))
    ELSE IF s[Len(s)] \in Whitespace THEN trimmed(SubSeq(s, 1, Len(s) - 1))
    ELSE s

\* QStringList::join( sep )
RECURSIVE join(_, _)
join(lines, sep) ==
    IF Len(lines) = 0 THEN << >>
    ELSE IF Len(lines) = 1 THEN lines[1]
    ELSE lines[1] \o sep \o join(Tail(lines), sep)

(***************************************************************************)
(* QVariant and GlobalStorage                                              *)
(***************************************************************************)
QVariantInvalid == [type |-> "Invalid"]
QVariantOfMap(m) == [type |-> "Map", value |-> m]
QVariantOfList(l) == [type |-> "List", value |-> l]
QVariantOfString(s) == [type |-> "String", value |-> s]
isValid(v) == v.type # "Invalid"

\* GlobalStorage::insert( key, value ): the value replaces what the key held.
insert(storage, key, value) ==
    [k \in (DOMAIN storage) \cup {key} |-> IF k = key THEN value ELSE storage[k]]

(***************************************************************************)
(* The partitioning library's objects and the external environment         *)
(***************************************************************************)
NoInnerFS == "none"

Ext4FS ==
    [type |-> "ext4", innerFS |-> NoInnerFS, mapperName |-> << >>, passphrase |-> << >>]

LuksFS(inner) ==
    [type |-> "luks", innerFS |-> inner,
     mapperName |-> <<"/", "dev", "/", "mapper", "/", "luks-1">>,
     passphrase |-> <<"secret">>]

FileSystems == <<Ext4FS, LuksFS(NoInnerFS), LuksFS("btrfs")>>

RootMountPoint == <<"/">>
BootMountPoint == <<"/", "boot">>
MountPoints == << << >>, RootMountPoint, BootMountPoint >>

\* Where a partition is and what its filesystem driver answers to readUUID:
\* not yet created (no path, no UUID), on disk without a UUID, on disk with
\* a UUID.  Two partitions of the list may carry the same path.
NewPath == << >>
Sda1 == <<"/", "dev", "/", "sda1">>
PathsAndUuids ==
    << [path |-> NewPath, uuid |-> << >>],
       [path |-> Sda1, uuid |-> << >>],
       [path |-> Sda1, uuid |-> <<"U1">>] >>

\* A Partition as the job sees it.  readUUID is the answer this partition's
\* filesystem driver gives to readUUID( partitionPath ).  A partition that is
\* not yet on disk has no path and state StateNew; the Luks role goes with
\* the luks filesystem.
Partition(path, mountPoint, fs, uuid) ==
    [partitionPath |-> path,
     mountPoint |-> mountPoint,
     fileSystem |-> fs,
     readUUID |-> uuid,
     state |-> IF path = NewPath THEN "StateNew" ELSE "StateNone",
     roles |-> IF fs.type = "luks" THEN {"Luks"} ELSE {}]

\* The partitions a device may hold: every pair of (path and UUID, mount
\* point), (path and UUID, filesystem) and (mount point, filesystem) occurs.
AllPartitions ==
    {Partition(PathsAndUuids[i].path, MountPoints[j],
               FileSystems[((i + j) % Len(FileSystems)) + 1], PathsAndUuids[i].uuid) :
        i \in DOMAIN PathsAndUuids, j \in DOMAIN MountPoints}

\* FileSystem::name() and FileSystem::nameForType( type, "C" )
FileSystemName(type) ==
    CASE type = "ext4" -> <<"ext4">>
      [] type = "luks" -> <<"luks">>
      [] type = "btrfs" -> <<"btrfs">>

userVisibleFS(fs) == FileSystemName(fs.type)
untranslatedFS(fs) == FileSystemName(fs.type)
untranslatedInnerFS(fs) == FileSystemName(fs.innerFS)

\* PartitionIterator::begin( device ) .. end( device )
PartitionsOf(device) == device.partitions

\* The cryptsetup process: what "cryptsetup luksUUID <path>" ends with.
Cryptsetup(path) ==
    IF path = Sda1
    THEN [exitStatus |-> "NormalExit", exitCode |-> 0, stdout |-> <<"L1", "\n">>]
    ELSE [exitStatus |-> "NormalExit", exitCode |-> 1, stdout |-> << >>]

ShortProductName == <<"Pisces">>

(***************************************************************************)
(* QString::arg on a translated template                                   *)
(***************************************************************************)
lowestMarker(t) ==
    IF \E i \in 1..Len(t) : t[i] = "%1" THEN "%1"
    ELSE IF \E i \in 1..Len(t) : t[i] = "%2" THEN "%2"
    ELSE IF \E i \in 1..Len(t) : t[i] = "%3" THEN "%3"
    ELSE "none"

RECURSIVE replaceAll(_, _, _)
replaceAll(t, marker, a) ==
    IF isEmpty(t) THEN << >>
    ELSE (IF t[1] = marker THEN a ELSE <<t[1]>>) \o replaceAll(Tail(t), marker, a)

\* QString::arg( a ): every occurrence of the lowest-numbered place marker
\* is replaced by a.
arg(t, a) ==
    IF lowestMarker(t) = "none" THEN t ELSE replaceAll(t, lowestMarker(t), a)

TrNewSystem == <<"Install ", "%1", " on <strong>new</strong> ", "%2", " system partition.">>
TrNewOther ==
    <<"Set up <strong>new</strong> ", "%2", " partition with mount point <strong>", "%1",
      "</strong>.">>
TrSystem == <<"Install ", "%2", " on ", "%3", " system partition <strong>", "%1", "</strong>.">>
TrOther ==
    <<"Set up ", "%3", " partition <strong>", "%1", "</strong> with mount point <strong>",
      "%2", "</strong>.">>
TrBootLoader == <<"Install boot loader on <strong>", "%1", "</strong>.">>
LineBreak == <<"<br/>">>

(***************************************************************************)
(* FillGlobalStorageJob.cpp                                                *)
(***************************************************************************)
EmptyHash == [k \in {} |-> << >>]

\* QHash::value( key ): a default-constructed QString when the key is absent.
hashValue(hash, key) == IF key \in DOMAIN hash THEN hash[key] ELSE << >>

\* The inner loop of findPartitionUuids over one device's partitions.
RECURSIVE insertPartitionUuids(_, _)
insertPartitionUuids(hash, partitions) ==
    IF Len(partitions) = 0 THEN hash
    ELSE insertPartitionUuids(
             insert(hash, partitions[1].partitionPath, partitions[1].readUUID),
             Tail(partitions))

RECURSIVE insertDeviceUuids(_, _)
insertDeviceUuids(hash, devices) ==
    IF Len(devices) = 0 THEN hash
    ELSE insertDeviceUuids(insertPartitionUuids(hash, PartitionsOf(devices[1])),
                           Tail(devices))

findPartitionUuids(devices) == insertDeviceUuids(EmptyHash, devices)

getLuksUuid(path) ==
    LET process == Cryptsetup(path)
    IN  IF process.exitStatus # "NormalExit" \/ process.exitCode # 0
        THEN << >>
        ELSE trimmed(process.stdout)

\* Fault variant of fsFields: "fs" keeps the container's name.
fsFields_KeepsContainer(partition) ==
    [fsName |-> userVisibleFS(partition.fileSystem),
     fs |-> untranslatedFS(partition.fileSystem)]

\* The filesystem fields of the record: "fsName" is the name of the
\* partition's own filesystem, "fs" is replaced by the inner filesystem's
\* name for a luks container with an inner filesystem.
fsFields(partition) ==
    [fsName |-> userVisibleFS(partition.fileSystem),
     fs |-> IF partition.fileSystem.type = "luks"
               /\ partition.fileSystem.innerFS # NoInnerFS
            THEN untranslatedInnerFS(partition.fileSystem)
            ELSE untranslatedFS(partition.fileSystem)]

luksFields(partition) ==
    IF "Luks" \in partition.roles /\ partition.fileSystem.type = "luks"
    THEN [luksMapperName |-> splitLast(partition.fileSystem.mapperName),
          luksUuid |-> getLuksUuid(partition.partitionPath),
          luksPassphrase |-> partition.fileSystem.passphrase]
    ELSE [k \in {} |-> << >>]

mapForPartition(partition, uuid) ==
    QVariantOfMap(
        [device |-> partition.partitionPath,
         mountPoint |-> partition.mountPoint,
         uuid |-> uuid,
         new |-> (partition.state = "StateNew")]
        @@ fsFields(partition)
        @@ luksFields(partition))

\* Fault variant of appendPartitionMaps: partitions without a mount point
\* get no record.
RECURSIVE appendPartitionMaps_SkipsUnmounted(_, _, _)
appendPartitionMaps_SkipsUnmounted(lst, partitions, hash) ==
    IF Len(partitions) = 0 THEN lst
    ELSE appendPartitionMaps_SkipsUnmounted(
             IF isEmpty(partitions[1].mountPoint) THEN lst
             ELSE Append(lst, mapForPartition(partitions[1],
                                              hashValue(hash, partitions[1].partitionPath))),
             Tail(partitions), hash)

\* The inner loop of createPartitionList over one device's partitions.
RECURSIVE appendPartitionMaps(_, _, _)
appendPartitionMaps(lst, partitions, hash) ==
    IF Len(partitions) = 0 THEN lst
    ELSE appendPartitionMaps(
             Append(lst, mapForPartition(partitions[1],
                                         hashValue(hash, partitions[1].partitionPath))),
             Tail(partitions), hash)

RECURSIVE appendDeviceMaps(_, _, _)
appendDeviceMaps(lst, devices, hash) ==
    IF Len(devices) = 0 THEN lst
    ELSE appendDeviceMaps(appendPartitionMaps(lst, PartitionsOf(devices[1]), hash),
                          Tail(devices), hash)

createPartitionList(devices) ==
    QVariantOfList(appendDeviceMaps(<< >>, devices, findPartitionUuids(devices)))

\* KPMHelpers::findPartitionByMountPoint: the first partition, in device and
\* iteration order, mapped to the mount point; << >> stands for nullptr.
RECURSIVE findInPartitions(_, _)
findInPartitions(partitions, mountPoint) ==
    IF Len(partitions) = 0 THEN << >>
    ELSE IF partitions[1].mountPoint = mountPoint THEN <<partitions[1]>>
    ELSE findInPartitions(Tail(partitions), mountPoint)

RECURSIVE findPartitionByMountPoint(_, _)
findPartitionByMountPoint(devices, mountPoint) ==
    IF Len(devices) = 0 THEN << >>
    ELSE IF findInPartitions(PartitionsOf(devices[1]), mountPoint) # << >>
    THEN findInPartitions(PartitionsOf(devices[1]), mountPoint)
    ELSE findPartitionByMountPoint(Tail(devices), mountPoint)

DevPrefix == <<"/", "dev", "/">>

\* Fault variant of createBootLoaderMap: a raw device path is looked up as a
\* mount point too.
createBootLoaderMap_AlwaysResolves(devices, bootLoaderPath) ==
    LET partition == findPartitionByMountPoint(devices, bootLoaderPath)
    IN  IF partition = << >>
        THEN QVariantInvalid
        ELSE QVariantOfMap([installPath |-> partition[1].partitionPath])

\* Fault variant of createBootLoaderMap: an unresolved mount point gives a
\* record with an empty installPath.
createBootLoaderMap_EmptyPathWhenUnresolved(devices, bootLoaderPath) ==
    IF ~startsWith(bootLoaderPath, DevPrefix)
    THEN LET partition == findPartitionByMountPoint(devices, bootLoaderPath)
         IN  IF partition = << >>
             THEN QVariantOfMap([installPath |-> << >>])
             ELSE QVariantOfMap([installPath |-> partition[1].partitionPath])
    ELSE QVariantOfMap([installPath |-> bootLoaderPath])

createBootLoaderMap(devices, bootLoaderPath) ==
    IF ~startsWith(bootLoaderPath, DevPrefix)
    THEN LET partition == findPartitionByMountPoint(devices, bootLoaderPath)
         IN  IF partition = << >>
             THEN QVariantInvalid
             ELSE QVariantOfMap([installPath |-> partition[1].partitionPath])
    ELSE QVariantOfMap([installPath |-> bootLoaderPath])

\* Fault variant of partitionLine: a new partition never gets the system
\* partition line.
partitionLine_NoSystemLineWhenNew(partitionItem) ==
    IF partitionItem.type # "Map" THEN << >>
    ELSE LET path == partitionItem.value["device"]
             mountPoint == partitionItem.value["mountPoint"]
             fsType == partitionItem.value["fs"]
         IN  IF isEmpty(mountPoint) \/ isEmpty(fsType) THEN << >>
             ELSE IF isEmpty(path)
             THEN <<arg(arg(TrNewOther, mountPoint), fsType)>>
             ELSE IF mountPoint = RootMountPoint
                  THEN <<arg(arg(arg(TrSystem, path), ShortProductName), fsType)>>
                  ELSE <<arg(arg(arg(TrOther, path), mountPoint), fsType)>>

\* The description line of one entry of the partition list; << >> when the
\* entry gets no line.
partitionLine(partitionItem) ==
    IF partitionItem.type # "Map" THEN << >>
    ELSE LET path == partitionItem.value["device"]
             mountPoint == partitionItem.value["mountPoint"]
             fsType == partitionItem.value["fs"]
         IN  IF isEmpty(mountPoint) \/ isEmpty(fsType) THEN << >>
             ELSE IF isEmpty(path)
             THEN IF mountPoint = RootMountPoint
                  THEN <<arg(arg(TrNewSystem, ShortProductName), fsType)>>
                  ELSE <<arg(arg(TrNewOther, mountPoint), fsType)>>
             ELSE IF mountPoint = RootMountPoint
                  THEN <<arg(arg(arg(TrSystem, path), ShortProductName), fsType)>>
                  ELSE <<arg(arg(arg(TrOther, path), mountPoint), fsType)>>

RECURSIVE partitionLines(_)
partitionLines(partitionList) ==
    IF Len(partitionList) = 0 THEN << >>
    ELSE partitionLine(partitionList[1]) \o partitionLines(Tail(partitionList))

bootLoaderLine(bootLoaderPath) ==
    IF ~isEmpty(bootLoaderPath) THEN <<arg(TrBootLoader, bootLoaderPath)>> ELSE << >>

\* Fault variant of descriptionLines: the boot loader line is left out when
\* the target resolves to nothing.
descriptionLines_OmitsUnresolvedBootLoader(devices, bootLoaderPath) ==
    partitionLines(createPartitionList(devices).value)
        \o (IF isValid(createBootLoaderMap(devices, bootLoaderPath))
            THEN bootLoaderLine(bootLoaderPath)
            ELSE << >>)

descriptionLines(devices, bootLoaderPath) ==
    partitionLines(createPartitionList(devices).value) \o bootLoaderLine(bootLoaderPath)

prettyDescription(devices, bootLoaderPath) ==
    join(descriptionLines(devices, bootLoaderPath), LineBreak)

\* The value exec stores under "bootLoader".
bootLoaderValue(devices, bootLoaderPath) ==
    IF ~isEmpty(bootLoaderPath)
    THEN createBootLoaderMap(devices, bootLoaderPath)
    ELSE QVariantInvalid

\* Fault variant of execStorage: without a boot loader target the key
\* "bootLoader" is not written.
execStorage_SkipsBootLoaderWithoutTarget(storage, devices, bootLoaderPath) ==
    IF ~isEmpty(bootLoaderPath)
    THEN insert(insert(storage, "partitions", createPartitionList(devices)),
                "bootLoader", createBootLoaderMap(devices, bootLoaderPath))
    ELSE insert(storage, "partitions", createPartitionList(devices))

\* Fault variant of execStorage: the records are added to the list the key
\* "partitions" already holds.
execStorage_AppendsToStoredList(storage, devices, bootLoaderPath) ==
    insert(insert(storage, "partitions",
                  IF "partitions" \in DOMAIN storage
                  THEN QVariantOfList(storage["partitions"].value
                                          \o createPartitionList(devices).value)
                  ELSE createPartitionList(devices)),
           "bootLoader", bootLoaderValue(devices, bootLoaderPath))

\* The global storage exec leaves behind.
execStorage(storage, devices, bootLoaderPath) ==
    insert(insert(storage, "partitions", createPartitionList(devices)),
           "bootLoader", bootLoaderValue(devices, bootLoaderPath))

\* Fault variant of execResult: an unresolved boot loader target is an error.
execResult_FailsWhenUnresolved(devices, bootLoaderPath) ==
    IF isEmpty(bootLoaderPath) \/ isValid(createBootLoaderMap(devices, bootLoaderPath))
    THEN "ok"
    ELSE "error"

\* The JobResult of exec.
execResult(devices, bootLoaderPath) == "ok"

(***************************************************************************)
(* The state machine                                                       *)
(***************************************************************************)
VARIABLES
    pc,               \* "setup": the caller assembles the devices; "ready": the job exists
    m_devices,        \* the device list, each device with its partitions
    m_bootLoaderPath, \* the boot loader target
    globalStorage,    \* Calamares::GlobalStorage
    jobResult,        \* "none" before exec, then what the last exec returned
    description,      \* what the last prettyDescription call returned
    executed          \* "never", "once" or "again": whether exec ran, and ran again

vars == <<pc, m_devices, m_bootLoaderPath, globalStorage, jobResult, description, executed>>

RawBootLoaderPath == <<"/", "dev", "/", "sda">>
BootLoaderPaths == {<< >>, RawBootLoaderPath, BootMountPoint}

StalePartitions ==
    QVariantOfList(<<QVariantOfMap([device |-> <<"/", "dev", "/", "old">>])>>)
StaleBootLoader == QVariantOfMap([installPath |-> <<"/", "dev", "/", "old">>])
OtherKey == "rootMountPoint"
OtherValue == QVariantOfString(<<"/", "tmp", "/", "root">>)

EmptyStorage == [k \in {} |-> QVariantInvalid]
StaleStorage ==
    insert(insert(insert(EmptyStorage, "partitions", StalePartitions),
                  "bootLoader", StaleBootLoader),
           OtherKey, OtherValue)
PriorStorages == {EmptyStorage, StaleStorage}

NotCalled == [called |-> FALSE]

RECURSIVE countPartitions(_)
countPartitions(devices) ==
    IF Len(devices) = 0 THEN 0
    ELSE Len(PartitionsOf(devices[1])) + countPartitions(Tail(devices))

Init ==
    /\ pc = "setup"
    /\ m_devices = << >>
    /\ m_bootLoaderPath = << >>
    /\ globalStorage \in PriorStorages
    /\ jobResult = "none"
    /\ description = NotCalled
    /\ executed = "never"

\* The caller adds a device without partitions to the list.
AddDevice ==
    /\ pc = "setup"
    /\ Len(m_devices) < MaxDevices
    /\ m_devices' = Append(m_devices, [partitions |-> << >>])
    /\ UNCHANGED <<pc, m_bootLoaderPath, globalStorage, jobResult, description, executed>>

\* The caller adds a partition to the last device of the list.
AddPartition ==
    /\ pc = "setup"
    /\ Len(m_devices) > 0
    /\ countPartitions(m_devices) < MaxPartitions
    /\ \E p \in AllPartitions :
         m_devices' = [m_devices EXCEPT ![Len(m_devices)].partitions = Append(@, p)]
    /\ UNCHANGED <<pc, m_bootLoaderPath, globalStorage, jobResult, description, executed>>

\* FillGlobalStorageJob( devices, bootLoaderPath )
Construct ==
    /\ pc = "setup"
    /\ \E path \in BootLoaderPaths : m_bootLoaderPath' = path
    /\ pc' = "ready"
    /\ UNCHANGED <<m_devices, globalStorage, jobResult, description, executed>>

PrettyDescription ==
    /\ pc = "ready"
    /\ description' = [called |-> TRUE, text |-> prettyDescription(m_devices, m_bootLoaderPath)]
    /\ UNCHANGED <<pc, m_devices, m_bootLoaderPath, globalStorage, jobResult, executed>>

Exec ==
    /\ pc = "ready"
    /\ executed' = IF executed = "never" THEN "once" ELSE "again"
    /\ globalStorage' = execStorage(globalStorage, m_devices, m_bootLoaderPath)
    /\ jobResult' = execResult(m_devices, m_bootLoaderPath)
    /\ UNCHANGED <<pc, m_devices, m_bootLoaderPath, description>>

Next ==
    \/ AddDevice
    \/ AddPartition
    \/ Construct
    \/ PrettyDescription
    \/ Exec

Spec == Init /\ [][Next]_vars

(***************************************************************************)
(* Properties                                                              *)
(***************************************************************************)
\* The partitions of a device list, in device order and, within a device,
\* in iteration order.
RECURSIVE partitionsInOrder(_)
partitionsInOrder(devices) ==
    IF Len(devices) = 0 THEN << >>
    ELSE PartitionsOf(devices[1]) \o partitionsInOrder(Tail(devices))

\* The records stored under "partitions".
storedRecords == globalStorage["partitions"].value

hasRun == executed # "never"

isMounted(p) == p.mountPoint # << >>
mountedPartitions == SelectSeq(partitionsInOrder(m_devices), isMounted)

\* The lines of a description: the text between the line breaks.
RECURSIVE splitLines(_, _, _)
splitLines(text, line, lines) ==
    IF Len(text) = 0 THEN Append(lines, line)
    ELSE IF <<text[1]>> = LineBreak THEN splitLines(Tail(text), << >>, Append(lines, line))
    ELSE splitLines(Tail(text), Append(line, text[1]), lines)

linesOf(text) == IF Len(text) = 0 THEN << >> ELSE splitLines(text, << >>, << >>)

usesSystemPhrasing(line) ==
    \E i \in 1..Len(line) : line[i] \in {" system partition.", " system partition <strong>"}

isBootLoaderLine(line) == Len(line) > 0 /\ line[1] = "Install boot loader on <strong>"

\* C1: exec returns JobResult::ok whatever the devices, the partitions, the
\* boot loader target and the prior content of the global storage are.
ExecAlwaysSucceeds == hasRun => jobResult = "ok"

ExecSucceededOnDegradedInput ==
    /\ hasRun
    /\ jobResult = "ok"
    /\ m_bootLoaderPath = BootMountPoint
    /\ ~isValid(globalStorage["bootLoader"])
    /\ \E i \in 1..Len(storedRecords) : isEmpty(storedRecords[i].value["uuid"])

\* C2: a run of exec puts the freshly built partition list under "partitions"
\* and the {installPath} record or the invalid value under "bootLoader",
\* whatever these keys held, and leaves every other key as it was.
ExecReplacesOnlyItsKeys ==
    [][executed' # executed =>
          /\ DOMAIN globalStorage' = (DOMAIN globalStorage) \cup {"partitions", "bootLoader"}
          /\ \A k \in (DOMAIN globalStorage) \ {"partitions", "bootLoader"} :
                globalStorage'[k] = globalStorage[k]
          /\ globalStorage'["partitions"] = createPartitionList(m_devices)
          /\ \/ globalStorage'["bootLoader"] = QVariantInvalid
             \/ /\ ~isEmpty(m_bootLoaderPath)
                /\ globalStorage'["bootLoader"].type = "Map"
                /\ DOMAIN globalStorage'["bootLoader"].value = {"installPath"}
                /\ globalStorage'["bootLoader"] # StaleBootLoader]_vars

StaleKeysReplacedOtherKeyKept ==
    /\ hasRun
    /\ OtherKey \in DOMAIN globalStorage
    /\ globalStorage[OtherKey] = OtherValue
    /\ Len(storedRecords) > 0
    /\ globalStorage["partitions"] # StalePartitions
    /\ globalStorage["bootLoader"] = QVariantInvalid

MountPointTargetResolvedOrAbsent ==
    (hasRun /\ ~isEmpty(m_bootLoaderPath) /\ ~startsWith(m_bootLoaderPath, DevPrefix)) =>
        LET all == partitionsInOrder(m_devices)
            mapped == {i \in 1..Len(all) : all[i].mountPoint = m_bootLoaderPath}
        IN  IF mapped = {}
            THEN globalStorage["bootLoader"] = QVariantInvalid /\ jobResult = "ok"
            ELSE \E i \in mapped :
                    /\ \A j \in mapped : i <= j
                    /\ globalStorage["bootLoader"]
                         = QVariantOfMap([installPath |-> all[i].partitionPath])

UnresolvedMountPointStoredAbsent ==
    /\ hasRun
    /\ m_bootLoaderPath = BootMountPoint
    /\ Len(partitionsInOrder(m_devices)) > 0
    /\ \A i \in 1..Len(partitionsInOrder(m_devices)) :
          partitionsInOrder(m_devices)[i].mountPoint # BootMountPoint
    /\ globalStorage["bootLoader"] = QVariantInvalid
    /\ jobResult = "ok"

isLuksWithInnerFS(p) == p.fileSystem.type = "luks" /\ p.fileSystem.innerFS # NoInnerFS

MissingUuidGivesEmptyField ==
    hasRun =>
        \A i \in 1..Len(storedRecords) :
            isEmpty(partitionsInOrder(m_devices)[i].readUUID) =>
                isEmpty(storedRecords[i].value["uuid"])

SecondExecLeavesStorageUnchanged ==
    [][hasRun => globalStorage' = globalStorage]_vars

ExecRanTwice ==
    /\ executed = "again"
    /\ Len(storedRecords) > 0
    /\ OtherKey \in DOMAIN globalStorage
    /\ isValid(globalStorage["bootLoader"])

\* C9: the list under "partitions" holds one record per partition, none
\* skipped or doubled, in device order and within a device in iteration order.
OneRecordPerPartitionInOrder ==
    hasRun =>
        LET all == partitionsInOrder(m_devices)
        IN  /\ globalStorage["partitions"].type = "List"
            /\ Len(storedRecords) = Len(all)
            /\ \A i \in 1..Len(all) :
                  /\ storedRecords[i].type = "Map"
                  /\ storedRecords[i].value["device"] = all[i].partitionPath
                  /\ storedRecords[i].value["mountPoint"] = all[i].mountPoint
                  /\ storedRecords[i].value["fsName"] = FileSystemName(all[i].fileSystem.type)
                  /\ storedRecords[i].value["new"] = (all[i].state = "StateNew")

UnmountedAndSamePathPartitionsRecorded ==
    /\ hasRun
    /\ Len(m_devices) = MaxDevices
    /\ \A d \in 1..Len(m_devices) : Len(PartitionsOf(m_devices[d])) > 0
    /\ Len(storedRecords) = MaxPartitions
    /\ storedRecords[1].value["device"] = storedRecords[Len(storedRecords)].value["device"]
    /\ isEmpty(storedRecords[1].value["mountPoint"])
    /\ ~isEmpty(storedRecords[Len(storedRecords)].value["mountPoint"])

\* C10: the description has a boot loader line exactly when the boot loader
\* target is not empty; it is the last line and shows the target as given.
BootLoaderLineShowsTargetAsGiven ==
    description.called =>
        LET lines == linesOf(description.text)
            bootLines == {i \in 1..Len(lines) : isBootLoaderLine(lines[i])}
        IN  IF isEmpty(m_bootLoaderPath)
            THEN bootLines = {}
            ELSE /\ bootLines = {Len(lines)}
                 /\ lines[Len(lines)]
                      = <<"Install boot loader on <strong>">> \o m_bootLoaderPath
                          \o <<"</strong>.">>

BootLoaderLineForUnresolvedMountPoint ==
    /\ description.called
    /\ hasRun
    /\ m_bootLoaderPath = BootMountPoint
    /\ globalStorage["bootLoader"] = QVariantInvalid
    /\ \E i \in 1..Len(linesOf(description.text)) :
          isBootLoaderLine(linesOf(description.text)[i])

====
